---- MODULE Spec2Model ----
(***************************************************************************)
(* Position-lifecycle control loop of capbot (src/capbot/app/engine.py,    *)
(* run_bot) together with the broker it talks to.                          *)
(*                                                                         *)
(* Time is counted in bar intervals: one tick of `now` closes one bar, and *)
(* several iterations of the loop may run inside one tick (the loop polls  *)
(* faster than the bar interval).  Timestamps that the code stores as ISO   *)
(* strings are the tick numbers themselves.  Prices are integers; one R is *)
(* RPoints price units.                                                    *)
(***************************************************************************)
EXTENDS Integers, Sequences, FiniteSets, TLC

\* ------------------------------------------------------------------ bounds
MaxTime == 3        \* ticks of the clock the model explores
MaxOrders == 2      \* market orders the controller may submit
MaxRuns == 2        \* process starts (first start + restarts)
CbLosses == 2       \* configured circuit_breaker.losses (threshold N)

\* --------------------------------------------------------------- sentinels
None == 0 - 1       \* Python None for an optional timestamp / price
NoDeal == 0         \* empty deal_id (flat)
NoLock == 0         \* no lock file

\* ------------------------------------------------------- configuration
CbCooldown == 1     \* circuit_breaker.cooldown_min, in ticks
RPoints == 10       \* r_points returned by the strategy's initial_risk
EntryPx == 30       \* entry price estimate of every entry
TpMult == 3         \* tp_r_multiple
BufferDen == 10     \* buffer_r is counted in tenths: BufferDen is buffer_r = 1.0
BufferR == 1        \* trailing.buffer_r = 0.10
SpecExitBars == 24  \* sp500_5m_spec fallback for exit_bars = 0

Size == 1           \* position size returned by calc_position_size (min_size)
Vpp == 1            \* risk.value_per_point_per_size

Deals == 1..MaxOrders       \* deal ids: the i-th market order opens position i
Dirs == {"BUY", "SELL"}

VARIABLES
  pc,        \* where the process is: top, reconcile, manage, entry, guard, open,
             \* resolve (inside run_bot's loop); stopped, crashed, killed
  run,       \* number of the current process start
  cfg,       \* configuration: [sp500 : engine mode sp500_5m_spec, cb_losses,
             \* side : direction of the strategy's signals]
  now,       \* `now` of the current iteration
  bar,       \* last closed bar of the price feed: [t, sig], sig the strategy's signal on it
  shutdown,  \* _shutdown_flag
  st,        \* in-memory EngineState (dict st)
  disk,      \* persisted EngineState (state file)
  lct,       \* run_bot's local variable last_closed_time
  cur,       \* locals of the entry in progress: [sigT, dir, id, ref]
  broker,    \* deal ids of the positions open (and listed) at the broker
  pending,   \* orders accepted by the broker whose position is not listed yet
  orders,    \* history: one record [t, run, dir] per open_market call; the
             \* order's deal id is its index
  lossRun,   \* history: length of the current run of losing exits
  it,        \* history of the current iteration: [adopted]
  ev,        \* history: what the last step of the process did
  lockf,     \* instance lock file: the run whose pid it holds, NoLock when absent
  call       \* one call of a pure function: its arguments and its result

vars == <<pc, run, cfg, now, bar, shutdown, st, disk, lct, cur, broker,
          pending, orders, lossRun, it, ev, lockf, call>>

\* ------------------------------------------------------------ data model
FlatPos ==
  [deal_id |-> NoDeal, direction |-> "", entry |-> None, sl |-> None, tp |-> None,
   r_points |-> None, atr |-> None, recovered |-> FALSE, entry_bar |-> None,
   exit_bars |-> 0, t1 |-> FALSE, t2 |-> FALSE, be_armed |-> FALSE,
   max_fav |-> None, min_fav |-> None]

EmptyState ==
  [pos |-> FlatPos, last_closed_time |-> None, consec_losses |-> 0,
   cooldown_until |-> None, last_mgmt_bar |-> None]

\* what the listing yields for the epic: deal id, direction and open level (the
\* stop and limit level when the broker reports them: the controller's runs
\* are explored with listings that carry none; size is Size for every position)
NoSnap == [deal_id |-> NoDeal, direction |-> "", entry |-> None, sl |-> None, tp |-> None]
\* direction of the position with deal id d
DirOf(d) == orders[d].dir
Snap(d) == [deal_id |-> d, direction |-> DirOf(d), entry |-> EntryPx, sl |-> None, tp |-> None]

NoCur == [sigT |-> None, dir |-> "", id |-> NoDeal, ref |-> FALSE]
\* what the resolver saw and did: the id from polling the list, from the
\* confirmation, the id it ended with, whether the fill deadline elapsed, the
\* position found after the deadline, the deal a close was issued for, and
\* whether FILL_TIMEOUT was emitted
NoRes == [listed |-> NoDeal, confirmed |-> NoDeal, deal_id |-> NoDeal, timedOut |-> FALSE,
          found |-> NoDeal, closed |-> NoDeal, notified |-> FALSE]
NoEv == [kind |-> "none", loss |-> FALSE, ok |-> TRUE, snap |-> NoDeal, res |-> NoRes]
Ev(k) == [NoEv EXCEPT !.kind = k]
NoIt == [adopted |-> FALSE]
NoCall == [fn |-> "none"]

\* low, high, close of a closed bar as the price feed returns it
Shapes ==
  { [low |-> 30, high |-> 30, close |-> 30], [low |-> 30, high |-> 50, close |-> 50],
    [low |-> 10, high |-> 30, close |-> 10], [low |-> 0, high |-> 60, close |-> 30] }
Bars(t) == { [t |-> t, sig |-> g] : g \in { "NONE", cfg.side } }
\* calendar/session situation of an iteration's `now`: open, Thursday (UTC),
\* outside regular hours, excluded local hour
Cals == {"open", "thu", "closed", "nth"}

\* the last closed bar at time t is the one stamped t - 1 (df.index[-2])
ClosedBar(t) == t - 1

\* ------------------------------------------------------------ broker listing
\* _extract_open_position_for_epic: the first listed position of the epic, and
\* None when there is none and also when every listing call raised
ExtractOpenPosition(ok, items) ==
  IF ok /\ items # {} THEN { Snap(d) : d \in items } ELSE { NoSnap }

\* ------------------------------------------------------------ reconciler
\* variant: adoption that does not set the recovered flag
ReconcileStNoFlag(s, snap) ==
  IF snap # NoSnap /\ s.pos.deal_id = NoDeal
    THEN [s EXCEPT !.pos = [FlatPos EXCEPT !.deal_id = snap.deal_id,
                                           !.direction = snap.direction,
                                           !.entry = snap.entry,
                                           !.sl = snap.sl, !.tp = snap.tp]]
  ELSE IF snap = NoSnap /\ s.pos.deal_id # NoDeal
    THEN [s EXCEPT !.pos = FlatPos]
  ELSE s

\* variant: a local position is also cleared when the broker lists another deal
ReconcileStOnMismatch(s, snap) ==
  IF snap # NoSnap /\ s.pos.deal_id = NoDeal
    THEN [s EXCEPT !.pos = [FlatPos EXCEPT !.deal_id = snap.deal_id,
                                           !.direction = snap.direction,
                                           !.entry = snap.entry,
                                           !.sl = snap.sl, !.tp = snap.tp,
                                           !.recovered = TRUE]]
  ELSE IF snap.deal_id # s.pos.deal_id /\ s.pos.deal_id # NoDeal
    THEN [s EXCEPT !.pos = FlatPos]
  ELSE s

\* variant: the clearing branch also forgets the bar that was managed
ReconcileStForgetBar(s, snap) ==
  IF snap # NoSnap /\ s.pos.deal_id = NoDeal
    THEN [s EXCEPT !.pos = [FlatPos EXCEPT !.deal_id = snap.deal_id,
                                           !.direction = snap.direction,
                                           !.entry = snap.entry,
                                           !.sl = snap.sl, !.tp = snap.tp,
                                           !.recovered = TRUE]]
  ELSE IF snap = NoSnap /\ s.pos.deal_id # NoDeal
    THEN [s EXCEPT !.pos = FlatPos, !.last_mgmt_bar = None]
  ELSE s

ReconcileSt(s, snap) ==
  IF snap # NoSnap /\ s.pos.deal_id = NoDeal
    THEN [s EXCEPT !.pos = [FlatPos EXCEPT !.deal_id = snap.deal_id,
                                           !.direction = snap.direction,
                                           !.entry = snap.entry,
                                           !.sl = snap.sl, !.tp = snap.tp,
                                           !.recovered = TRUE]]
  ELSE IF snap = NoSnap /\ s.pos.deal_id # NoDeal
    THEN [s EXCEPT !.pos = FlatPos]
  ELSE s

\* the reconciler saves only in the two repairing branches
ReconcileSaves(s, snap) ==
  \/ snap # NoSnap /\ s.pos.deal_id = NoDeal
  \/ snap = NoSnap /\ s.pos.deal_id # NoDeal

\* ------------------------------------------------------------ circuit breaker
ProfitPts(pos, px) ==
  LET entry == IF pos.entry = None THEN 0 ELSE pos.entry
  IN IF pos.direction = "BUY" THEN px - entry ELSE entry - px

\* bprofit, bexit: <<>> or <<v>>, what the broker's close confirmation carried
ProfitCash(pos, exit_price, bprofit, bexit) ==
  LET px == IF bexit # <<>> THEN bexit[1] ELSE exit_price
  IN IF bprofit # <<>> THEN bprofit[1] ELSE ProfitPts(pos, px) * Size * Vpp

\* variant: a non-losing exit keeps the counter
NextConsecKeep(consec, cash) == IF cash < 0 THEN consec + 1 ELSE consec

NextConsec(consec, cash) == IF cash < 0 THEN consec + 1 ELSE 0

\* variant: the breaker trips one loss late
NextCooldownLate(cd, consec, cb_losses, t) ==
  IF consec > cb_losses THEN t + CbCooldown ELSE cd

NextCooldown(cd, consec, cb_losses, t) ==
  IF consec >= cb_losses THEN t + CbCooldown ELSE cd

\* _handle_position_exit on the engine state
\* variant: the position is left in the state when it is exited
HandlePositionExitKeepPos(s, cash, t, mode_sp500) ==
  LET consec == NextConsec(s.consec_losses, cash)
  IN [s EXCEPT !.consec_losses = consec,
               !.cooldown_until = NextCooldown(@, consec, cfg.cb_losses, t),
               !.last_closed_time = IF mode_sp500 THEN @ ELSE t]

HandlePositionExit(s, cash, t, mode_sp500) ==
  LET consec == NextConsec(s.consec_losses, cash)
  IN [s EXCEPT !.consec_losses = consec,
               !.cooldown_until = NextCooldown(@, consec, cfg.cb_losses, t),
               !.pos = FlatPos,
               !.last_closed_time = IF mode_sp500 THEN @ ELSE t]

\* safe_close_position at the broker: a close that fails leaves the position
CloseAtBroker(b, deal, closeOk) ==
  IF closeOk THEN b \ { deal } ELSE b

\* ------------------------------------------------------------ entry gates
\* variant: a sticky gate, blocking as long as a cooldown is stored
CooldownBlocksSticky(cd, t) == cd # None

CooldownBlocks(cd, t) == cd # None /\ t < cd

\* variant: a bar equal to last_closed_time passes
DedupSkipStrict(last, sigT) == last # None /\ sigT < last

DedupSkip(last, sigT) == last # None /\ sigT <= last

\* ------------------------------------------------------------ exit evaluator
HitSl(pos, b) ==
  \/ pos.direction = "BUY" /\ b.low <= pos.sl
  \/ pos.direction = "SELL" /\ b.high >= pos.sl

HitTp(pos, b) ==
  \/ pos.direction = "BUY" /\ b.high >= pos.tp
  \/ pos.direction = "SELL" /\ b.low <= pos.tp

\* tp_first of run_bot: the sp500_5m_spec mode, or exit_priority = TP_FIRST
TpFirst(sp500, exit_priority) == sp500 \/ exit_priority = "TP_FIRST"

\* variant: the stop always wins the tie
SlTpExitStopFirst(tp_first, pos, b) ==
  IF HitSl(pos, b) THEN [reason |-> "EXIT_SL", px |-> pos.sl]
                   ELSE [reason |-> "EXIT_TP", px |-> pos.tp]

\* reason and price of a stop/target exit under the tie-break policy
SlTpExit(tp_first, pos, b) ==
  IF tp_first
    THEN (IF HitTp(pos, b) THEN [reason |-> "EXIT_TP", px |-> pos.tp]
                           ELSE [reason |-> "EXIT_SL", px |-> pos.sl])
    ELSE (IF HitSl(pos, b) THEN [reason |-> "EXIT_SL", px |-> pos.sl]
                           ELSE [reason |-> "EXIT_TP", px |-> pos.tp])

SlTpExitPrice(tp_first, pos, b) == SlTpExit(tp_first, pos, b).px

TimeExitDue(pos, bar_t, sp500) ==
  LET n == IF sp500 /\ pos.exit_bars = 0 THEN SpecExitBars ELSE pos.exit_bars
  IN n > 0 /\ pos.entry_bar # None /\ bar_t >= pos.entry_bar + n

MissingLevels(pos) == pos.tp = None \/ pos.sl = None \/ pos.r_points = None

Decision(k, reason, px) == [kind |-> k, reason |-> reason, px |-> px]

\* variant: the time stop is checked before the stop/target hit
ExitDecisionTimeFirst(pos, b, cal, bar_t, sp500, tp_first, rth_exit) ==
  IF rth_exit /\ cal = "closed" THEN Decision("exit", "EXIT_RTH", b.close)
  ELSE IF MissingLevels(pos) THEN Decision("skip", "", None)
  ELSE IF TimeExitDue(pos, bar_t, sp500) THEN Decision("exit", "TIME_EXIT", b.close)
  ELSE IF HitSl(pos, b) \/ HitTp(pos, b)
    THEN Decision("exit", SlTpExit(tp_first, pos, b).reason, SlTpExit(tp_first, pos, b).px)
  ELSE Decision("trail", "", None)

\* the exit checks of a management iteration, in the order of the code:
\* session close, (levels present), stop/target, time stop; otherwise trailing
ExitDecision(pos, b, cal, bar_t, sp500, tp_first, rth_exit) ==
  IF rth_exit /\ cal = "closed" THEN Decision("exit", "EXIT_RTH", b.close)
  ELSE IF MissingLevels(pos) THEN Decision("skip", "", None)
  ELSE IF HitSl(pos, b) \/ HitTp(pos, b)
    THEN Decision("exit", SlTpExit(tp_first, pos, b).reason, SlTpExit(tp_first, pos, b).px)
  ELSE IF TimeExitDue(pos, bar_t, sp500) THEN Decision("exit", "TIME_EXIT", b.close)
  ELSE Decision("trail", "", None)

\* ------------------------------------------------------------ trailing engines
Max2(a, b) == IF a >= b THEN a ELSE b
Min2(a, b) == IF a <= b THEN a ELSE b

\* profit_points
ProfitPoints(direction, entry_px, live_px) ==
  IF direction = "BUY" THEN live_px - entry_px ELSE entry_px - live_px

\* variant: the thresholds are reached only strictly above 1R and 2R
MaybeTrailOptionAStrict(direction, entry, live, r_points, current_sl, t1, t2, buffer_r) ==
  LET buy == direction = "BUY"
      ppts == ProfitPoints(direction, entry, live)
      buffer_pts == (buffer_r * r_points) \div BufferDen
      sl_be == IF buy THEN entry + buffer_pts ELSE entry - buffer_pts
      sl_1r == IF buy THEN entry + r_points + buffer_pts
                      ELSE entry - r_points - buffer_pts
      Better(new, old) == IF buy THEN new > old ELSE new < old
      do2 == ~t2 /\ ppts > 2 * r_points
      ch2 == do2 /\ Better(sl_1r, current_sl)
      sl2 == IF ch2 THEN sl_1r ELSE current_sl
      t2a == t2 \/ do2
      t1a == t1 \/ do2
      do1 == ~t1a /\ ppts > r_points
      ch1 == do1 /\ Better(sl_be, sl2)
      sl1 == IF ch1 THEN sl_be ELSE sl2
      t1b == t1a \/ do1
  IN IF r_points <= 0 \/ ppts <= 0
       THEN [moved |-> FALSE, sl |-> current_sl, t1 |-> t1, t2 |-> t2]
       ELSE [moved |-> ch2 \/ ch1, sl |-> sl1, t1 |-> t1b, t2 |-> t2a]

\* maybe_trail_option_a: (changed, sl, flags)
MaybeTrailOptionA(direction, entry, live, r_points, current_sl, t1, t2, buffer_r) ==
  LET buy == direction = "BUY"
      ppts == ProfitPoints(direction, entry, live)
      buffer_pts == (buffer_r * r_points) \div BufferDen
      sl_be == IF buy THEN entry + buffer_pts ELSE entry - buffer_pts
      sl_1r == IF buy THEN entry + r_points + buffer_pts
                      ELSE entry - r_points - buffer_pts
      Better(new, old) == IF buy THEN new > old ELSE new < old
      do2 == ~t2 /\ ppts >= 2 * r_points
      ch2 == do2 /\ Better(sl_1r, current_sl)
      sl2 == IF ch2 THEN sl_1r ELSE current_sl
      t2a == t2 \/ do2
      t1a == t1 \/ do2
      do1 == ~t1a /\ ppts >= r_points
      ch1 == do1 /\ Better(sl_be, sl2)
      sl1 == IF ch1 THEN sl_be ELSE sl2
      t1b == t1a \/ do1
  IN IF r_points <= 0 \/ ppts <= 0
       THEN [moved |-> FALSE, sl |-> current_sl, t1 |-> t1, t2 |-> t2]
       ELSE [moved |-> ch2 \/ ch1, sl |-> sl1, t1 |-> t1b, t2 |-> t2a]

\* variant: the store keeps the new stop and drops the flags
TrailOptionANoLatch(pos, live, buffer_r) ==
  LET r == MaybeTrailOptionA(pos.direction, pos.entry, live, pos.r_points, pos.sl,
                             pos.t1, pos.t2, buffer_r)
  IN IF r.moved THEN [pos EXCEPT !.sl = r.sl] ELSE pos

\* the threshold variant in run_bot: the call and the `if moved:` store
TrailOptionA(pos, live, buffer_r) ==
  LET r == MaybeTrailOptionA(pos.direction, pos.entry, live, pos.r_points, pos.sl,
                             pos.t1, pos.t2, buffer_r)
  IN IF r.moved THEN [pos EXCEPT !.sl = r.sl, !.t1 = r.t1, !.t2 = r.t2] ELSE pos

\* variant: the stop follows the last bar's extreme, without the ratchet
TrailSp500FromBar(pos, b) ==
  LET atr == IF pos.atr = None THEN 0 ELSE pos.atr
      buy == pos.direction = "BUY"
      mx0 == IF pos.max_fav = None THEN pos.entry ELSE pos.max_fav
      mn0 == IF pos.min_fav = None THEN pos.entry ELSE pos.min_fav
      mx == IF buy THEN Max2(mx0, b.high) ELSE mx0
      mn == IF buy THEN mn0 ELSE Min2(mn0, b.low)
      be == pos.be_armed \/ (IF buy THEN b.high > pos.entry ELSE b.low < pos.entry)
      cand == IF buy THEN b.high - atr ELSE b.low + atr
      sl == IF ~be THEN cand
            ELSE IF buy THEN Max2(cand, pos.entry) ELSE Min2(cand, pos.entry)
  IN IF atr <= 0 \/ (sl = pos.sl /\ be = pos.be_armed)
       THEN pos
       ELSE [pos EXCEPT !.sl = sl, !.be_armed = be, !.max_fav = mx, !.min_fav = mn]

\* the favorable-extreme variant in run_bot: _trail_sp500_spec and the
\* conditional store
TrailSp500(pos, b) ==
  LET atr == IF pos.atr = None THEN 0 ELSE pos.atr
      buy == pos.direction = "BUY"
      mx0 == IF pos.max_fav = None THEN pos.entry ELSE pos.max_fav
      mn0 == IF pos.min_fav = None THEN pos.entry ELSE pos.min_fav
      mx == IF buy THEN Max2(mx0, b.high) ELSE mx0
      mn == IF buy THEN mn0 ELSE Min2(mn0, b.low)
      be == pos.be_armed \/ (IF buy THEN b.high > pos.entry ELSE b.low < pos.entry)
      cand == IF buy THEN Max2(pos.sl, mx - atr) ELSE Min2(pos.sl, mn + atr)
      sl == IF ~be THEN cand
            ELSE IF buy THEN Max2(cand, pos.entry) ELSE Min2(cand, pos.entry)
  IN IF atr <= 0 \/ (sl = pos.sl /\ be = pos.be_armed)
       THEN pos
       ELSE [pos EXCEPT !.sl = sl, !.be_armed = be, !.max_fav = mx, !.min_fav = mn]

Trail(pos, b, sp500, buffer_r) ==
  IF sp500 THEN TrailSp500(pos, b) ELSE TrailOptionA(pos, b.close, buffer_r)

\* the notifications of a trailing step: none unless the position was stored
TrailEvents(pos, new, sp500) ==
  IF new = pos THEN {}
  ELSE { "TRAIL_SL" }
         \cup (IF ~sp500 /\ ~pos.t1 /\ new.t1 THEN { "TRAIL_1R" } ELSE {})
         \cup (IF ~sp500 /\ ~pos.t2 /\ new.t2 THEN { "TRAIL_2R" } ELSE {})

\* ------------------------------------------------------------ strategy
AtrEntry == 10      \* atr14 of the signal bar
ExitBarsCfg == 1    \* exit_bars of a strategy that uses a time stop

\* exit_bars in initial_risk's result: the sp500_5m_spec strategy returns none
InitialExitBars(sp500) == IF sp500 THEN 0 ELSE ExitBarsCfg

\* st["pos"] written after a confirmed entry (initial_risk of the strategy)
NewPos(deal, dir, sigT, exit_bars) ==
  [FlatPos EXCEPT !.deal_id = deal, !.direction = dir, !.entry = EntryPx,
                  !.r_points = RPoints, !.atr = AtrEntry,
                  !.sl = IF dir = "BUY" THEN EntryPx - RPoints ELSE EntryPx + RPoints,
                  !.tp = IF dir = "BUY" THEN EntryPx + TpMult * RPoints
                                        ELSE EntryPx - TpMult * RPoints,
                  !.entry_bar = sigT + 1, !.exit_bars = exit_bars]

\* ------------------------------------------------------------ position sizing
RiskDen == 100      \* risk_pct is counted in hundredths: RiskDen is risk_pct = 1.0
DefaultMinSize == 1 \* min_size when the one given is not a finite number

\* float values that are not finite numbers, and math.isfinite
NaN == 0 - 1000000
Inf == 1000000
IsFinite(x) == x # NaN /\ x # Inf

\* variant: the floor of the risk quotient is returned without the minimum
CalcPositionSizeNoMin(bot_equity, risk_pct, r_points, vpps, min_size, max_size) ==
  IF bot_equity <= 0 \/ risk_pct <= 0 \/ r_points <= 0 \/ vpps <= 0
    THEN Max2(0, min_size)
    ELSE (bot_equity * Min2(RiskDen, risk_pct)) \div (RiskDen * r_points * vpps)

\* variant: the guard fails to zero instead of the minimum size
CalcPositionSizeZero(bot_equity, risk_pct, r_points, vpps, min_size, max_size) ==
  LET eq == IF IsFinite(bot_equity) THEN bot_equity ELSE 0
      rp == Max2(0, Min2(RiskDen, IF IsFinite(risk_pct) THEN risk_pct ELSE 0))
      rpt == IF IsFinite(r_points) THEN r_points ELSE 0
      v == IF IsFinite(vpps) THEN vpps ELSE 0
      mn == Max2(0, IF IsFinite(min_size) THEN min_size ELSE DefaultMinSize)
      mx0 == IF max_size # None /\ IsFinite(max_size) THEN max_size ELSE None
      mx == IF mx0 # None /\ mx0 < mn THEN mn ELSE mx0
  IN IF eq <= 0 \/ rp <= 0 \/ rpt <= 0 \/ v <= 0
       THEN 0
       ELSE LET raw == (eq * rp) \div (RiskDen * rpt * v)
                size == Max2(mn, raw)
            IN IF mx # None THEN Min2(mx, size) ELSE size

\* calc_position_size; max_size = None when no maximum is given
CalcPositionSize(bot_equity, risk_pct, r_points, vpps, min_size, max_size) ==
  LET eq == IF IsFinite(bot_equity) THEN bot_equity ELSE 0
      rp == Max2(0, Min2(RiskDen, IF IsFinite(risk_pct) THEN risk_pct ELSE 0))
      rpt == IF IsFinite(r_points) THEN r_points ELSE 0
      v == IF IsFinite(vpps) THEN vpps ELSE 0
      mn == Max2(0, IF IsFinite(min_size) THEN min_size ELSE DefaultMinSize)
      mx0 == IF max_size # None /\ IsFinite(max_size) THEN max_size ELSE None
      mx == IF mx0 # None /\ mx0 < mn THEN mn ELSE mx0
  IN IF eq <= 0 \/ rp <= 0 \/ rpt <= 0 \/ v <= 0
       THEN mn
       ELSE LET raw == (eq * rp) \div (RiskDen * rpt * v)
                size == Max2(mn, raw)
            IN IF mx # None THEN Min2(mx, size) ELSE size

\* initial_risk of a strategy whose risk unit is SL_ATR * ATR of the signal
\* bar with SL_ATR = 1 (de40_vwap_k020.py 159-184); a non-finite ATR gives
\* non-finite levels
InitialRisk(entry_price, atr_signal, direction) ==
  LET r == atr_signal
  IN [r_points |-> r,
      sl_local |-> IF ~IsFinite(r) THEN NaN
                   ELSE IF direction = "BUY" THEN entry_price - r ELSE entry_price + r,
      tp_local |-> IF ~IsFinite(r) THEN NaN
                   ELSE IF direction = "BUY" THEN entry_price + TpMult * r
                                              ELSE entry_price - TpMult * r]

\* lines 1294-1306 and 1412-1430: the risk levels and the size of an entry as
\* they are sent with the order and recorded for the position
EntryRecord(direction, entry_price, atr_signal, bot_equity, risk_pct, vpp) ==
  LET init == InitialRisk(entry_price, atr_signal, direction)
  IN [direction |-> direction,
      size |-> CalcPositionSize(bot_equity, risk_pct, init.r_points, vpp,
                                DefaultMinSize, None),
      r_points |-> init.r_points, sl_local |-> init.sl_local, tp_local |-> init.tp_local]

\* ------------------------------------------------------------ environment inputs
MaxConsec == 3      \* cap of the loss counter explored
BProfits == { <<>>, <<0 - 5>>, <<0>> }   \* profit in the close confirmation
BExits == { <<>>, <<20>> }             \* level in the close confirmation
ShutPrices == { 20, 40 }                    \* latest close at shutdown
Fetches == { "ok", "empty", "raise" }           \* client.get_prices

Live(s) == s.pos.deal_id # NoDeal

\* utc_now() at the top of an iteration, and the feed's last closed bar
Tick ==
  \E t \in { now, now + 1 } :
    /\ t <= MaxTime
    /\ now' = t
    /\ IF t = now
         THEN bar' = bar
         ELSE bar' \in Bars(ClosedBar(t))

Init ==
  /\ pc = "top"
  /\ run = 1
  /\ cfg \in [sp500 : BOOLEAN, cb_losses : { CbLosses }, side : Dirs]
  /\ now = 1
  /\ bar \in Bars(ClosedBar(1))
  /\ shutdown = FALSE
  /\ st = EmptyState
  /\ disk = EmptyState
  /\ lct = None
  /\ cur = NoCur
  /\ pending = {}
  \* a first start, or a start with an empty state file while the position of
  \* an order of an earlier run (run 0) is open at the broker
  /\ \/ orders = <<>> /\ broker = {}
     \/ orders = << [t |-> None, run |-> 0, dir |-> cfg.side] >> /\ broker = { 1 }
  /\ lossRun = 0
  /\ it = NoIt
  /\ ev = NoEv
  /\ lockf = run
  /\ call = NoCall

\* an exception no handler catches leaves run_bot: the process ends and its
\* memory (st, last_closed_time, the locals) is gone
Crash ==
  /\ pc' = "crashed"
  /\ st' = EmptyState
  /\ lct' = None
  /\ cur' = NoCur
  /\ it' = NoIt
  /\ ev' = Ev("raise")
  /\ UNCHANGED <<disk, lossRun>>

\* ------------------------------------------------------------ top of the loop
\* lines 876-972: no shutdown requested; login, which may fail
IterStart ==
  /\ pc = "top"
  /\ ~shutdown
  /\ Tick
  /\ \E loginOk \in BOOLEAN :
       /\ pc' = IF loginOk THEN "reconcile" ELSE "top"
       /\ ev' = NoEv
  /\ it' = NoIt
  /\ cur' = NoCur
  /\ UNCHANGED <<call, lockf, run, cfg, shutdown, st, disk, lct, broker, pending, orders, lossRun>>

\* the exit of a position: close at the broker, circuit breaker, state cleanup,
\* then save_state
ExitPosition(s0, exit_price, t, mode_sp500, nextpc) ==
  \E closeOk \in BOOLEAN, bprofit \in BProfits, bexit \in BExits :
    LET cash == ProfitCash(s0.pos, exit_price, bprofit, bexit)
        s1 == HandlePositionExit(s0, cash, t, mode_sp500)
    IN /\ cash < 0 => st.consec_losses < MaxConsec
       /\ st' = s1
       /\ disk' = s1
       /\ broker' = CloseAtBroker(broker, st.pos.deal_id, closeOk)
       /\ lossRun' = IF cash < 0 THEN lossRun + 1 ELSE 0
       /\ ev' = [NoEv EXCEPT !.kind = "exit", !.loss = cash < 0, !.ok = closeOk]
       /\ pc' = nextpc

\* lines 880-905: shutdown observed at the top of an iteration
ShutdownExit ==
  /\ pc = "top"
  /\ shutdown
  /\ Tick
  /\ IF Live(st)
       THEN \E px \in ShutPrices \cup { IF st.pos.entry = None THEN 0 ELSE st.pos.entry } :
              ExitPosition(st, px, now', FALSE, "stopped")
       ELSE /\ pc' = "stopped"
            /\ ev' = NoEv
            /\ UNCHANGED <<st, disk, broker, lossRun>>
  /\ lockf' = NoLock
  /\ UNCHANGED <<call, run, cfg, shutdown, lct, cur, pending, orders, it>>

\* ------------------------------------------------------------ reconciliation
\* lines 974-994
Reconcile ==
  /\ pc = "reconcile"
  /\ \E ok \in BOOLEAN :
       \E snap \in ExtractOpenPosition(ok, broker) :
         LET s1 == ReconcileSt(st, snap)
         IN /\ st' = s1
            /\ disk' = IF ReconcileSaves(st, snap) THEN s1 ELSE disk
            /\ pc' = IF Live(s1) THEN "manage" ELSE "entry"
            /\ ev' = [NoEv EXCEPT !.kind = "reconcile", !.ok = ok,
                                   !.snap = IF Live(st) /\ snap = NoSnap THEN st.pos.deal_id
                                            ELSE IF Live(st) THEN NoDeal
                                            ELSE snap.deal_id]
            /\ it' = [it EXCEPT !.adopted = ~Live(st) /\ snap # NoSnap]
  /\ UNCHANGED <<call, lockf, run, cfg, now, bar, shutdown, lct, cur, broker, pending,
                 orders, lossRun>>

\* variant: a weekday exclusion, an excluded hour or a cooldown in the state
\* ends the management of the iteration before any exit check
ManageDecisionGated(fetch, s, b, cal, bar_t, sp500, tp_first, rth_exit) ==
  IF fetch = "empty" \/ (s.last_mgmt_bar = bar_t /\ ~sp500) THEN Decision("none", "", None)
  ELSE IF cal \in { "thu", "nth" } \/ s.cooldown_until # None
    THEN Decision("none", "", None)
  ELSE ExitDecision(s.pos, b, cal, bar_t, sp500, tp_first, rth_exit)

\* variant: every poll evaluates the bar
ManageDecisionEveryPoll(fetch, s, b, cal, bar_t, sp500, tp_first, rth_exit) ==
  IF fetch = "empty" THEN Decision("none", "", None)
  ELSE ExitDecision(s.pos, b, cal, bar_t, sp500, tp_first, rth_exit)

\* lines 999-1110: what the iteration of an open position decides, from the
\* state s and the fetched bars: "none" when the prices are empty or the last
\* closed bar was managed already (lines 1003-1018), else the exit decision
ManageDecision(fetch, s, b, cal, bar_t, sp500, tp_first, rth_exit) ==
  IF fetch = "empty" \/ (s.last_mgmt_bar = bar_t /\ ~sp500) THEN Decision("none", "", None)
  ELSE ExitDecision(s.pos, b, cal, bar_t, sp500, tp_first, rth_exit)

\* lines 1020-1021 and 1043-1169: the state an iteration that closes nothing
\* leaves: the bar is marked as managed, and the trailing engine runs unless
\* the levels are missing
ManageState(s, d, b, bar_t, sp500, buffer_r) ==
  IF d.kind = "none" THEN s
  ELSE IF d.kind = "trail"
    THEN [s EXCEPT !.last_mgmt_bar = bar_t, !.pos = Trail(s.pos, b, sp500, buffer_r)]
  ELSE [s EXCEPT !.last_mgmt_bar = bar_t]

\* ------------------------------------------------------------ position management
\* lines 999-1174
Manage ==
  /\ pc = "manage"
  /\ \E fetch \in Fetches, b \in Shapes, cal \in Cals :
       IF fetch = "raise"
         THEN Crash /\ UNCHANGED broker
       ELSE
         LET d == ManageDecision(fetch, st, b, cal, bar.t, cfg.sp500,
                                 TpFirst(cfg.sp500, ""), ~cfg.sp500)
             m == [st EXCEPT !.last_mgmt_bar = bar.t]
         IN IF d.kind = "none"
              THEN /\ pc' = "top"
                   /\ ev' = NoEv
                   /\ UNCHANGED <<st, disk, lct, cur, it, broker, lossRun>>
              ELSE /\ UNCHANGED <<lct, cur, it>>
                   /\ IF d.kind = "exit"
                        THEN ExitPosition(m, d.px, now, d.reason # "EXIT_RTH" /\ cfg.sp500, "top")
                      ELSE LET s1 == ManageState(st, d, b, bar.t, cfg.sp500, BufferR)
                           IN /\ st' = s1 /\ disk' = s1 /\ pc' = "top"
                              /\ ev' = NoEv
                              /\ UNCHANGED <<broker, lossRun>>
  /\ UNCHANGED <<call, lockf, run, cfg, now, bar, shutdown, pending, orders>>

\* ------------------------------------------------------------ entry path
\* lines 1181-1282: what the entry evaluation of a flat iteration ends with.
\* thu: the weekday exclusion is configured and `now` is a Thursday (UTC);
\* outside: the session window is enabled and `now` is outside it;
\* nth: the local hour of `now` is a configured excluded hour
EntryDecision(fetch, thu, outside, nth, sp500, cooldown, sig, dedup) ==
  IF fetch = "raise" THEN "raise"
  ELSE IF fetch = "empty" THEN "noprices"
  ELSE IF thu THEN "gate_thu"
  ELSE IF outside THEN "gate_rth"
  ELSE IF nth /\ ~sp500 THEN "gate_nth"
  ELSE IF cooldown THEN "gate_cd"
  ELSE IF ~sig THEN "nosig"
  ELSE IF dedup THEN "dedup"
  ELSE "signal"

\* lines 1181-1282: price fetch, gates, signal, dedup
EntryEval ==
  /\ pc = "entry"
  /\ \E fetch \in Fetches, cal \in Cals :
       LET k == EntryDecision(fetch, cal = "thu", cal = "closed", cal = "nth", cfg.sp500,
                              CooldownBlocks(st.cooldown_until, now), bar.sig # "NONE",
                              DedupSkip(lct, bar.t))
       IN IF k = "raise"
            THEN Crash /\ UNCHANGED broker
            ELSE /\ ev' = Ev(k)
                 /\ pc' = IF k = "signal" THEN "guard" ELSE "top"
                 /\ cur' = IF k = "signal"
                             THEN [NoCur EXCEPT !.sigT = bar.t, !.dir = bar.sig]
                             ELSE cur
                 /\ UNCHANGED <<st, disk, lct, broker, lossRun, it>>
  /\ UNCHANGED <<call, lockf, run, cfg, now, bar, shutdown, pending, orders>>

\* lines 1310-1324: OPEN_POSITION_GUARD
Guard ==
  /\ pc = "guard"
  /\ \E ok \in BOOLEAN :
       \E snap \in ExtractOpenPosition(ok, broker) :
         IF snap # NoSnap
           THEN LET s1 == [st EXCEPT !.last_closed_time = cur.sigT]
                IN /\ lct' = cur.sigT /\ st' = s1 /\ disk' = s1
                   /\ pc' = "top"
                   /\ ev' = [NoEv EXCEPT !.kind = "guard_skip", !.ok = ok]
           ELSE /\ pc' = "open"
                /\ ev' = [NoEv EXCEPT !.kind = "guard_pass", !.ok = ok]
                /\ UNCHANGED <<lct, st, disk>>
  /\ UNCHANGED <<call, lockf, run, cfg, now, bar, shutdown, cur, broker, pending, orders,
                 lossRun, it>>

\* what the broker does with a market order:
\*   filled   - position open and listed when open_market returns
\*   lagging  - accepted, position not listed yet
\*   rejected - no position will appear
\*   raise    - the call raised without placing the order
\*   raise_sent - the call raised after the order was accepted
OpenOutcomes == { "filled", "lagging", "rejected", "raise", "raise_sent" }

\* line 1329: client.open_market
OpenMarket ==
  /\ pc = "open"
  /\ Len(orders) < MaxOrders
  /\ \E out \in OpenOutcomes, hasRef \in BOOLEAN :
       LET id == Len(orders) + 1
       IN /\ broker' = IF out = "filled" THEN broker \cup { id } ELSE broker
          /\ pending' = IF out \in { "lagging", "raise_sent" }
                          THEN pending \cup { id } ELSE pending
          /\ orders' = Append(orders, [t |-> cur.sigT, run |-> run, dir |-> cur.dir])
          /\ IF out \in { "raise", "raise_sent" }
               THEN Crash
               ELSE /\ pc' = "resolve"
                    /\ cur' = [cur EXCEPT !.id = id, !.ref = hasRef]
                    /\ ev' = NoEv
                    /\ UNCHANGED <<st, disk, lct, lossRun, it>>
  /\ UNCHANGED <<call, lockf, run, cfg, now, bar, shutdown>>

Confirms == { "skip", "raise", "none", "id" }    \* client.confirm by deal reference

\* lines 1351-1374: the id the resolver ends with, from the id of the polled
\* list, the id of the confirmation and the id of the last-resort listing
ResolveDealId(listed, confirmed, last) ==
  LET d2 == IF confirmed # NoDeal THEN confirmed ELSE listed
  IN IF d2 = NoDeal THEN last ELSE d2

\* variant: no close is issued for a position found after the deadline
OrphanToCloseNone(deal_id, timedOut, o) == NoDeal

\* lines 1378-1384: the deal that is force-closed as an orphan
OrphanToClose(deal_id, timedOut, o) ==
  IF deal_id = NoDeal /\ timedOut /\ o # NoSnap THEN o.deal_id ELSE NoDeal

\* variant: an abandoned attempt does not mark its bar
AbandonEntryNoMark(s, sigT) == s

\* lines 1394-1398: the state written when the resolver ends without an id
AbandonEntry(s, sigT) == [s EXCEPT !.last_closed_time = sigT]

\* lines 1332-1430: order confirmation resolver and the state it writes
Resolve ==
  /\ pc = "resolve"
  /\ \E fill \in BOOLEAN, ok1 \in BOOLEAN, ok2 \in BOOLEAN, ok3 \in BOOLEAN,
        conf \in Confirms, timedOut \in BOOLEAN, closeOk \in BOOLEAN :
       LET mine == pending \cap { cur.id }
           b1 == IF fill THEN broker \cup mine ELSE broker
           pend1 == IF fill THEN pending \ mine ELSE pending
           accepted == cur.id \in b1 \cup pend1
       IN /\ ~cur.ref => conf = "skip"
          /\ conf = "skip" => (~cur.ref \/ timedOut)
          /\ conf = "id" => accepted
          /\ (conf = "id" \/ ok1) => ok2      \* ok2, ok3, closeOk: only where read
          /\ (ok2 \/ ~timedOut) => ok3
          /\ (ok2 \/ ~ok3 \/ ~timedOut) => closeOk
          /\ pending' = pend1
          /\ \E m1 \in ExtractOpenPosition(ok1, b1),
                m2 \in ExtractOpenPosition(ok2, b1),
                o \in ExtractOpenPosition(ok3, b1) :
               LET confirmed == IF conf = "id" THEN cur.id ELSE NoDeal
                   d3 == ResolveDealId(m1.deal_id, confirmed, m2.deal_id)
                   orphan_id == OrphanToClose(d3, timedOut, o)
                   s1 == IF d3 = NoDeal THEN AbandonEntry(st, cur.sigT)
                         ELSE [st EXCEPT !.last_closed_time = cur.sigT,
                                         !.pos = NewPos(d3, cur.dir, cur.sigT,
                                                        InitialExitBars(cfg.sp500))]
               IN IF conf = "raise"
                    THEN Crash /\ broker' = b1
                    ELSE /\ pc' = "top"
                         /\ broker' = IF orphan_id # NoDeal
                                        THEN CloseAtBroker(b1, orphan_id, closeOk)
                                        ELSE b1
                         /\ lct' = cur.sigT
                         /\ st' = s1
                         /\ disk' = s1
                         /\ ev' = [NoEv EXCEPT
                                     !.kind = "resolve", !.ok = closeOk,
                                     !.res = [listed |-> m1.deal_id,
                                              confirmed |-> confirmed,
                                              deal_id |-> d3,
                                              timedOut |-> timedOut,
                                              found |-> IF d3 = NoDeal /\ timedOut
                                                          THEN o.deal_id ELSE NoDeal,
                                              closed |-> orphan_id,
                                              notified |-> orphan_id # NoDeal]]
                         /\ UNCHANGED <<cur, lossRun, it>>
  /\ UNCHANGED <<call, lockf, run, cfg, now, bar, shutdown, orders>>

\* ------------------------------------------------------------ environment
\* The broker's position list is read by the reconciler, the guard and the
\* resolver, and the shutdown flag at the top of an iteration: a change of
\* either is taken right before the step that can observe it.

\* a lagging order's position becomes visible at the broker
BrokerFill ==
  /\ pc \in { "reconcile", "guard" }
  /\ \E d \in pending :
       /\ broker' = broker \cup { d }
       /\ pending' = pending \ { d }
  /\ UNCHANGED <<call, lockf, pc, run, cfg, now, bar, shutdown, st, disk, lct, cur, orders,
                 lossRun, it, ev>>

\* a position is closed outside the controller (stop-out, manual close)
BrokerClose ==
  /\ pc \in { "reconcile", "guard", "resolve" }
  /\ \E d \in broker : broker' = broker \ { d }
  /\ UNCHANGED <<call, lockf, pc, run, cfg, now, bar, shutdown, st, disk, lct, cur, pending,
                 orders, lossRun, it, ev>>

\* SIGTERM / SIGINT handler
SignalShutdown ==
  /\ pc = "top"
  /\ ~shutdown
  /\ shutdown' = TRUE
  /\ UNCHANGED <<call, lockf, pc, run, cfg, now, bar, st, disk, lct, cur, broker, pending,
                 orders, lossRun, it, ev>>

\* the process is killed at an arbitrary point of an iteration
Kill ==
  /\ pc \notin { "stopped", "crashed", "killed" }
  /\ pc' = "killed"
  /\ st' = EmptyState
  /\ lct' = None
  /\ cur' = NoCur
  /\ it' = NoIt
  /\ ev' = Ev("kill")
  /\ UNCHANGED <<call, lockf, run, cfg, now, bar, shutdown, disk, broker, pending, orders,
                 lossRun>>

\* lines 754-863: a new process loads the persisted state
Restart ==
  /\ pc \in { "crashed", "killed" }
  /\ run < MaxRuns
  /\ run' = run + 1
  /\ pc' = "top"
  /\ st' = disk
  /\ lct' = disk.last_closed_time
  /\ shutdown' = FALSE
  /\ cur' = NoCur
  /\ it' = NoIt
  /\ ev' = Ev("restart")
  /\ lockf' = run'
  /\ UNCHANGED <<call, cfg, now, bar, disk, broker, pending, orders, lossRun>>

Step ==
  \/ IterStart \/ ShutdownExit \/ Reconcile \/ Manage
  \/ EntryEval \/ Guard \/ OpenMarket \/ Resolve

Env == BrokerFill \/ BrokerClose \/ SignalShutdown

Next == Step \/ Env

\* one run of the controller
Spec == Init /\ [][Next]_vars

\* the controller under kills and restarts from the persisted state, explored
\* for a strategy whose signals are long
InitCrash == Init /\ cfg.side = "BUY"
NextCrash == Next \/ Kill \/ Restart
SpecCrash == InitCrash /\ [][NextCrash]_vars

\* the signal arrives while an iteration is under way: the handler only sets
\* the flag (lines 573-580) and the iteration goes on
SignalMidIteration ==
  /\ pc \in { "reconcile", "manage", "entry", "guard", "open", "resolve" }
  /\ ~shutdown
  /\ shutdown' = TRUE
  /\ UNCHANGED <<call, lockf, pc, run, cfg, now, bar, st, disk, lct, cur, broker, pending,
                 orders, lossRun, it, ev>>

\* one run of the controller with the signal arriving at any point, explored
\* for long signals; every step of the loop returns or raises, so the loop
\* keeps taking steps
NextShut == Step \/ BrokerFill \/ BrokerClose \/ SignalShutdown \/ SignalMidIteration
SpecShut == InitCrash /\ [][NextShut]_vars /\ WF_vars(Step)

\* broker calls that succeed: the login of an iteration and the listing of its
\* reconciliation pass
LoginOk == IterStart /\ pc' = "reconcile"
ReconcileOk == Reconcile /\ ev'.ok

\* one run of the controller, explored for long signals, in which the loop
\* keeps taking steps and the login and the listing do not fail forever
SpecLoop ==
  InitCrash /\ [][Next]_vars /\ WF_vars(Step) /\ SF_vars(LoginOk) /\ SF_vars(ReconcileOk)

\* ------------------------------------------------------------ pure functions
\* The pure functions of the domain layer, each applied once to arguments
\* drawn from bounded sets; the controller does not run.
SizeCalls ==
  [fn : { "size" }, bot_equity : { 0 - 5, 0, 1, 999, 25000, NaN, Inf },
   risk_pct : { 0 - 2, 0, 2, 100, 150, NaN }, r_points : { 0, 1, 10, Inf },
   vpps : { 0, 1, 2, NaN }, min_size : { 0 - 2, 0, 1, 2, NaN },
   max_size : { None, 1, 3, 60, Inf }, done : { FALSE }, out : { 0 }]

\* a position under the trailing engine: entry 100, one R of 10 points, the
\* initial stop one R behind the entry
MaxTrail == 3       \* management iterations applied to one position
TrailEntry == 100
TrailR == 10
NoBar == [low |-> None, high |-> None, close |-> None]
TrailBars ==
  { [low |-> 100, high |-> 100, close |-> 100], [low |-> 95, high |-> 105, close |-> 100],
    [low |-> 100, high |-> 109, close |-> 109], [low |-> 100, high |-> 110, close |-> 110],
    [low |-> 100, high |-> 111, close |-> 111], [low |-> 105, high |-> 120, close |-> 120],
    [low |-> 112, high |-> 125, close |-> 113],
    [low |-> 91, high |-> 100, close |-> 91], [low |-> 90, high |-> 100, close |-> 90],
    [low |-> 89, high |-> 100, close |-> 89], [low |-> 80, high |-> 95, close |-> 80],
    [low |-> 75, high |-> 88, close |-> 87] }
\* trailing.buffer_r as configured and as hot reload may change it, in tenths
Buffers == { 0, BufferR, 12 }

TrailPos(dir, r_points, atr) ==
  [FlatPos EXCEPT !.deal_id = 1, !.direction = dir, !.entry = TrailEntry,
                  !.r_points = r_points, !.atr = atr,
                  !.sl = IF dir = "BUY" THEN TrailEntry - TrailR ELSE TrailEntry + TrailR,
                  !.tp = IF dir = "BUY" THEN TrailEntry + TpMult * TrailR
                                        ELSE TrailEntry - TpMult * TrailR,
                  !.entry_bar = 1]

\* pos: the position; prev, b, buffer_r: the position before the last
\* iteration and that iteration's closed bar and buffer; n: iterations so far;
\* emitted: the notifications of the last iteration; fav: some closed bar so
\* far went past the entry in the trade's favor; ext: the highest high (BUY) or
\* lowest low (SELL) of the bars so far, the entry when none went beyond it
TrailCalls ==
  { [fn |-> "trail", sp500 |-> m, pos |-> TrailPos(d, r, a), prev |-> TrailPos(d, r, a),
     b |-> NoBar, buffer_r |-> BufferR, n |-> 0, emitted |-> {}, fav |-> FALSE,
     ext |-> TrailEntry] :
    m \in BOOLEAN, d \in Dirs, r \in { 0, TrailR }, a \in { 0, TrailR } }

\* a management iteration's exit checks on a held position: the position with
\* or without its levels and with or without a time stop, the closed bar, the
\* session situation, the bar's timestamp and the configuration
ExitBars ==
  { [low |-> 100, high |-> 105, close |-> 102], [low |-> 85, high |-> 100, close |-> 95],
    [low |-> 100, high |-> 135, close |-> 120], [low |-> 65, high |-> 100, close |-> 80],
    [low |-> 60, high |-> 140, close |-> 100] }
ExitPositions ==
  { [TrailPos(d, TrailR, TrailR) EXCEPT !.exit_bars = n] : d \in Dirs, n \in { 0, 1 } }
    \cup { [FlatPos EXCEPT !.deal_id = 1, !.direction = d, !.entry = TrailEntry,
                           !.recovered = TRUE] : d \in Dirs }
ExitCalls ==
  [fn : { "exit" }, pos : ExitPositions, b : ExitBars, cal : Cals,
   bar_t : { 1, 2, 1 + SpecExitBars }, sp500 : BOOLEAN, exit_priority : { "", "TP_FIRST" },
   rth_exit : BOOLEAN, done : { FALSE }, out : { Decision("", "", None) }]

\* the entry evaluation of a flat iteration, the calendar conditions of `now`
\* taken independently of each other
GateCalls ==
  [fn : { "gate" }, fetch : Fetches, thu : BOOLEAN, outside : BOOLEAN, nth : BOOLEAN,
   sp500 : BOOLEAN, cooldown : BOOLEAN, sig : BOOLEAN, dedup : BOOLEAN,
   done : { FALSE }, out : { "" }]

\* iterations of an open position polling one closed bar: the state holds
\* the position, the bar managed last and possibly a cooldown
MaxPolls == 2
MgmtBarT == 2
MgmtStates ==
  { [EmptyState EXCEPT !.pos = p, !.last_mgmt_bar = l, !.cooldown_until = c] :
      p \in ExitPositions, l \in { None, MgmtBarT }, c \in { None, MaxTime + 1 } }
MgmtCalls ==
  { [fn |-> "mgmt", s |-> s0, prev |-> s0, b |-> b, cal |-> cal, bar_t |-> MgmtBarT,
     sp500 |-> sp, rth_exit |-> x, fetch |-> "", n |-> 0, evals |-> 0,
     out |-> Decision("", "", None)] :
      s0 \in MgmtStates, b \in ExitBars, cal \in Cals, sp \in BOOLEAN, x \in BOOLEAN }

\* adoption of a listed position by a flat controller, followed by the
\* management iteration of a later closed bar: the listing carries the stop
\* and limit level or not
AdoptSnaps ==
  { [deal_id |-> 1, direction |-> d, entry |-> TrailEntry, sl |-> sl, tp |-> tp] :
      d \in Dirs, sl \in { None, TrailEntry - TrailR, TrailEntry + TrailR },
      tp \in { None, TrailEntry - TpMult * TrailR, TrailEntry + TpMult * TrailR } }
AdoptCalls ==
  [fn : { "adopt" }, snap : AdoptSnaps, b : ExitBars, sp500 : BOOLEAN,
   s : { EmptyState }, done : { FALSE }, out : { Decision("", "", None) }]

\* a confirmed entry: the signal's direction, the ATR of the signal bar and
\* the sizing configuration
EntryCalls ==
  [fn : { "entry" }, direction : Dirs, atr_signal : { 0 - 5, 0, 10, NaN, Inf },
   bot_equity : { 0, 25000, NaN }, risk_pct : { 0, 2 }, vpp : { 0, 1 },
   done : { FALSE },
   out : { [direction |-> "", size |-> 0, r_points |-> 0, sl_local |-> 0, tp_local |-> 0] }]

engineVars == <<pc, run, cfg, now, bar, shutdown, st, disk, lct, cur, broker,
                pending, orders, lossRun, it, ev, lockf>>

InitFn ==
  /\ pc = "fn"
  /\ run = 1
  /\ cfg = [sp500 |-> FALSE, cb_losses |-> CbLosses, side |-> "BUY"]
  /\ now = 1
  /\ bar = [t |-> ClosedBar(1), sig |-> "NONE"]
  /\ shutdown = FALSE
  /\ st = EmptyState
  /\ disk = EmptyState
  /\ lct = None
  /\ cur = NoCur
  /\ broker = {}
  /\ pending = {}
  /\ orders = <<>>
  /\ lossRun = 0
  /\ it = NoIt
  /\ ev = NoEv
  /\ lockf = NoLock
  /\ call \in SizeCalls \cup TrailCalls \cup ExitCalls \cup GateCalls \cup MgmtCalls
             \cup AdoptCalls \cup EntryCalls

ApplySize ==
  /\ call.fn = "size" /\ ~call.done
  /\ call' = [call EXCEPT !.done = TRUE,
                          !.out = CalcPositionSize(call.bot_equity, call.risk_pct,
                                                   call.r_points, call.vpps,
                                                   call.min_size, call.max_size)]
  /\ UNCHANGED engineVars

\* one management iteration that reaches the trailing engine (lines 1110-1169)
ApplyTrail ==
  /\ call.fn = "trail" /\ call.n < MaxTrail
  /\ \E b \in TrailBars, buf \in Buffers :
       LET new == Trail(call.pos, b, call.sp500, buf)
       IN call' = [call EXCEPT !.prev = call.pos, !.pos = new, !.b = b,
                               !.buffer_r = buf, !.n = @ + 1,
                               !.emitted = TrailEvents(call.pos, new, call.sp500),
                               !.fav = @ \/ (IF call.pos.direction = "BUY"
                                               THEN b.high > call.pos.entry
                                               ELSE b.low < call.pos.entry),
                               !.ext = IF call.pos.direction = "BUY"
                                         THEN Max2(@, b.high) ELSE Min2(@, b.low)]
  /\ UNCHANGED engineVars

\* one management iteration up to its exit decision (lines 1029-1110)
ApplyExit ==
  /\ call.fn = "exit" /\ ~call.done
  /\ call' = [call EXCEPT !.done = TRUE,
                          !.out = ExitDecision(call.pos, call.b, call.cal, call.bar_t,
                                               call.sp500,
                                               TpFirst(call.sp500, call.exit_priority),
                                               call.rth_exit)]
  /\ UNCHANGED engineVars

\* the entry evaluation of one flat iteration (lines 1181-1282)
ApplyGate ==
  /\ call.fn = "gate" /\ ~call.done
  /\ call' = [call EXCEPT !.done = TRUE,
                          !.out = EntryDecision(call.fetch, call.thu, call.outside,
                                                call.nth, call.sp500, call.cooldown,
                                                call.sig, call.dedup)]
  /\ UNCHANGED engineVars

\* one iteration of an open position (lines 999-1174); an exit clears the
\* position
ApplyMgmt ==
  /\ call.fn = "mgmt" /\ call.n < MaxPolls /\ call.s.pos.deal_id # NoDeal
  /\ \E fetch \in { "ok", "empty" } :
       LET d == ManageDecision(fetch, call.s, call.b, call.cal, call.bar_t, call.sp500,
                               TpFirst(call.sp500, ""), call.rth_exit)
       IN call' = [call EXCEPT
                     !.fetch = fetch, !.out = d, !.n = @ + 1, !.prev = call.s,
                     !.evals = IF d.kind = "none" THEN @ ELSE @ + 1,
                     !.s = IF d.kind = "exit"
                             THEN [call.s EXCEPT !.last_mgmt_bar = call.bar_t, !.pos = FlatPos]
                             ELSE ManageState(call.s, d, call.b, call.bar_t, call.sp500,
                                              BufferR)]
  /\ UNCHANGED engineVars

\* the reconcile block on a flat state (lines 980-984), then the management
\* iteration of the next closed bar inside the session (lines 999-1110)
ApplyAdopt ==
  /\ call.fn = "adopt" /\ ~call.done
  /\ LET s1 == ReconcileSt(call.s, call.snap)
     IN call' = [call EXCEPT !.done = TRUE, !.s = s1,
                             !.out = ManageDecision("ok", s1, call.b, "open", MgmtBarT,
                                                    call.sp500, TpFirst(call.sp500, ""),
                                                    ~call.sp500)]
  /\ UNCHANGED engineVars

\* sizing and risk levels of an entry whose order is confirmed
ApplyEntry ==
  /\ call.fn = "entry" /\ ~call.done
  /\ call' = [call EXCEPT !.done = TRUE,
                          !.out = EntryRecord(call.direction, TrailEntry, call.atr_signal,
                                              call.bot_equity, call.risk_pct, call.vpp)]
  /\ UNCHANGED engineVars

NextFn ==
  \/ ApplySize \/ ApplyTrail \/ ApplyExit \/ ApplyGate \/ ApplyMgmt \/ ApplyAdopt
  \/ ApplyEntry
SpecFn == InitFn /\ [][NextFn]_vars

\* ------------------------------------------------------------ watchdog
\* The heartbeat watchdog (_Watchdog) next to the main loop's tick().  The
\* clock counts the watchdog's wait periods (30 s); each `with self._lock:`
\* block is one atomic step, and the main loop may tick between the two blocks
\* of one pass of _run.
MaxClock == 8       \* wait periods explored
WdTimeout == 2      \* self._timeout, in wait periods (max(60, timeout_sec) = 60 s)

\* the engine does not run while a component is explored on its own
IdleEngine ==
  /\ pc = "fn"
  /\ run = 1
  /\ cfg = [sp500 |-> FALSE, cb_losses |-> CbLosses, side |-> "BUY"]
  /\ now = 1
  /\ bar = [t |-> ClosedBar(1), sig |-> "NONE"]
  /\ shutdown = FALSE
  /\ st = EmptyState
  /\ disk = EmptyState
  /\ lct = None
  /\ cur = NoCur
  /\ broker = {}
  /\ pending = {}
  /\ orders = <<>>
  /\ lossRun = 0
  /\ it = NoIt
  /\ ev = NoEv
  /\ lockf = NoLock

\* clock: monotonic time; last_tick, alerted: the object's fields; wpc: where
\* _run is (wait: in self._stop.wait, decide: after the first locked block);
\* elapsed, already: _run's locals; woke: the clock value of the last wake-up.
\* History: ep numbers the intervals between ticks, readEp is the interval the
\* locals were read in, alertsEp counts the alerts raised for the current
\* interval, seen tells that a pass of _run that read elapsed > timeout in the
\* current interval has finished.
InitWd ==
  /\ IdleEngine
  /\ call = [fn |-> "wd", clock |-> 0, last_tick |-> 0, alerted |-> FALSE,
             wpc |-> "wait", elapsed |-> 0, already |-> FALSE, woke |-> 0,
             ep |-> 0, readEp |-> 0, alertsEp |-> 0, seen |-> FALSE]

\* time passes
WatchdogClock ==
  /\ call.clock < MaxClock
  /\ call' = [call EXCEPT !.clock = @ + 1]
  /\ UNCHANGED engineVars

\* tick(), called by the main loop once per iteration
WatchdogTick ==
  /\ call.ep < MaxClock
  /\ call' = [call EXCEPT !.last_tick = call.clock, !.alerted = FALSE,
                          !.ep = @ + 1, !.alertsEp = 0, !.seen = FALSE]
  /\ UNCHANGED engineVars

\* _run, lines 614-617: the wait returned and the fields are read under the lock
WatchdogRead ==
  /\ call.wpc = "wait" /\ call.clock > call.woke
  /\ call' = [call EXCEPT !.wpc = "decide", !.woke = call.clock,
                          !.elapsed = call.clock - call.last_tick,
                          !.already = call.alerted, !.readEp = call.ep]
  /\ UNCHANGED engineVars

\* _run, lines 618-630: the test on the locals, the flag set under the lock and
\* the alert
WatchdogAlert ==
  /\ call.wpc = "decide"
  /\ LET stalled == call.elapsed > WdTimeout
         fire == stalled /\ ~call.already
         mine == call.readEp = call.ep
     IN call' = [call EXCEPT !.wpc = "wait",
                             !.alerted = IF fire THEN TRUE ELSE @,
                             !.alertsEp = IF fire /\ mine THEN @ + 1 ELSE @,
                             !.seen = @ \/ (stalled /\ mine)]
  /\ UNCHANGED engineVars

NextWd == WatchdogClock \/ WatchdogTick \/ WatchdogRead \/ WatchdogAlert
SpecWd == InitWd /\ [][NextWd]_vars

\* ------------------------------------------------------------ instance lock
\* InstanceLock.acquire and release called by NumProcs processes on one lock
\* path. The file at the path is a record: the process that created it (its
\* inode) and the pid text it holds, NoPid while nothing has been written.
NumProcs == 2
Procs == 1 .. NumProcs
DeadPid == 99       \* the pid left in the file by a process that no longer exists
NoPid == 0
NoFile == [owner |-> 0, pid |-> NoPid]
StaleFile == [owner |-> DeadPid, pid |-> DeadPid]

\* _pid_is_alive: the callers are running processes
PidIsAlive(pid) == pid \in Procs

InitLock ==
  /\ IdleEngine
  /\ \E f \in { NoFile, StaleFile } :
       call = [fn |-> "lock", file |-> f, lpc |-> [p \in Procs |-> "start"],
               pid |-> [p \in Procs |-> None]]

\* os.open with O_CREAT | O_EXCL, first attempt (line 45) or retry (line 66)
LockCreate(p) ==
  /\ call.lpc[p] \in { "start", "retry" }
  /\ IF call.file = NoFile
       THEN call' = [call EXCEPT !.file = [owner |-> p, pid |-> NoPid],
                                 !.lpc[p] = "created"]
       ELSE call' = [call EXCEPT !.lpc[p] = IF @ = "start" THEN "read" ELSE "failed"]
  /\ UNCHANGED engineVars

\* os.write of the pid through the descriptor, then acquire returns; the
\* write reaches the file at the path only while that is still the file the
\* descriptor opened
LockWritePid(p) ==
  /\ call.lpc[p] = "created"
  /\ call' = [call EXCEPT !.file = IF @.owner = p THEN [@ EXCEPT !.pid = p] ELSE @,
                          !.lpc[p] = "held"]
  /\ UNCHANGED engineVars

\* lines 49-53: read_text; an empty or unreadable file gives pid -1
LockRead(p) ==
  /\ call.lpc[p] = "read"
  /\ call' = [call EXCEPT !.pid[p] = IF call.file.pid = NoPid THEN 0 - 1 ELSE call.file.pid,
                          !.lpc[p] = "decide"]
  /\ UNCHANGED engineVars

\* lines 55-56
LockDecide(p) ==
  /\ call.lpc[p] = "decide"
  /\ call' = [call EXCEPT !.lpc[p] = IF call.pid[p] > 0 /\ PidIsAlive(call.pid[p])
                                       THEN "failed" ELSE "unlink"]
  /\ UNCHANGED engineVars

\* lines 59-62: unlink of whatever file is at the path
LockUnlink(p) ==
  /\ call.lpc[p] = "unlink"
  /\ call' = [call EXCEPT !.file = NoFile, !.lpc[p] = "retry"]
  /\ UNCHANGED engineVars

\* release: close, then unlink of whatever file is at the path
LockRelease(p) ==
  /\ call.lpc[p] = "held"
  /\ call' = [call EXCEPT !.file = NoFile, !.lpc[p] = "released"]
  /\ UNCHANGED engineVars

NextLock ==
  \E p \in Procs :
    \/ LockCreate(p) \/ LockWritePid(p) \/ LockRead(p)
    \/ LockDecide(p) \/ LockUnlink(p) \/ LockRelease(p)
SpecLock == InitLock /\ [][NextLock]_vars

\* ------------------------------------------------------------ state store
\* save_state_atomic followed by a crash and load_state. A file's content is
\* a saved state (1 .. NumStates), Garbled (text that is not a JSON object)
\* or Missing (no file); load_state returns a state or EmptyDict.
NumStates == 2
MaxSaves == 2
Missing == 0 - 2
Garbled == 0 - 3
EmptyDict == 0
States == 1 .. NumStates

\* _read_json: {} for a file that cannot be read or parsed
ReadJson(f) == IF f \in States THEN f ELSE EmptyDict

LoadState(main, bak) ==
  IF main = Missing THEN EmptyDict
  ELSE IF ReadJson(main) # EmptyDict THEN ReadJson(main)
  ELSE IF bak # Missing /\ ReadJson(bak) # EmptyDict THEN ReadJson(bak)
  ELSE EmptyDict

\* the files as an earlier save left them
InitSave ==
  /\ IdleEngine
  /\ \E m \in States \cup { Missing }, b \in States \cup { Missing } :
       /\ (m = Missing => b = Missing)
       /\ call = [fn |-> "save", main |-> m, bak |-> b, tmp |-> Missing, spc |-> "idle",
                   prev |-> LoadState(m, b), new |-> LoadState(m, b), saves |-> 0,
                   loaded |-> EmptyDict]

\* line 58: open(tmp, "w") creates or truncates the temp file
SaveOpenTmp ==
  /\ call.spc = "idle"
  /\ call.saves < MaxSaves
  /\ \E n \in States :
       call' = [call EXCEPT !.tmp = Garbled, !.spc = "open", !.new = n,
                            !.prev = LoadState(call.main, call.bak), !.saves = @ + 1]
  /\ UNCHANGED engineVars

\* lines 59-60: the payload is written and flushed
SaveWriteTmp ==
  /\ call.spc = "open"
  /\ call' = [call EXCEPT !.tmp = call.new, !.spc = "written"]
  /\ UNCHANGED engineVars

\* lines 63-67: the previous file is moved to .bak, best effort
SaveRotate ==
  /\ call.spc = "written"
  /\ \E ok \in BOOLEAN :
       call' = IF ok /\ call.main # Missing
                 THEN [call EXCEPT !.bak = call.main, !.main = Missing, !.spc = "rotated"]
                 ELSE [call EXCEPT !.spc = "rotated"]
  /\ UNCHANGED engineVars

\* line 70: os.replace(tmp, path)
SaveReplace ==
  /\ call.spc = "rotated"
  /\ call' = [call EXCEPT !.main = call.tmp, !.tmp = Missing, !.spc = "idle",
                          !.prev = call.new]
  /\ UNCHANGED engineVars

\* the process dies between two steps of the save, or after it
SaveCrash ==
  /\ call.spc \in { "open", "written", "rotated", "idle" }
  /\ call.saves > 0
  /\ call' = [call EXCEPT !.spc = "crashed"]
  /\ UNCHANGED engineVars

\* the next process calls load_state
SaveLoad ==
  /\ call.spc = "crashed"
  /\ call' = [call EXCEPT !.loaded = LoadState(call.main, call.bak), !.spc = "loaded"]
  /\ UNCHANGED engineVars

NextSave ==
  \/ SaveOpenTmp \/ SaveWriteTmp \/ SaveRotate \/ SaveReplace \/ SaveCrash \/ SaveLoad
SpecSave == InitSave /\ [][NextSave]_vars

\* ------------------------------------------------------------ fill resolver
\* The resolver of one submitted order (lines 1332-1402) against the
\* monotonic clock, in seconds since the submission. A listing or a confirm
\* call takes some time and may or may not yield a position id.
FillTimeout == 45       \* fill_timeout_sec
ListPolls == 10         \* range(10) of method 1
ConfirmTries == 3       \* range(3) of method 2
ConfirmTimeout == 15    \* timeout_sec of client.confirm
ListTimes == { 1, 5 }   \* sleep(0.3) and one listing call
ConfirmTimes == { 1, ConfirmTimeout }

InitRes ==
  /\ IdleEngine
  /\ \E ref \in BOOLEAN :
       call = [fn |-> "fill", rpc |-> "list", clock |-> 0, i |-> 0, deal_ref |-> ref,
               deal_id |-> NoDeal, polled |-> None, elapsed |-> None, orphan |-> FALSE]

\* lines 1339-1347: method 1, at most ListPolls listings
ResList ==
  /\ call.rpc = "list"
  /\ IF call.i >= ListPolls \/ call.clock > FillTimeout
       THEN call' = [call EXCEPT !.rpc = "confirm", !.i = 0]
       ELSE \E dt \in ListTimes, found \in BOOLEAN :
              call' = [call EXCEPT !.clock = @ + dt, !.polled = call.clock,
                                   !.deal_id = IF found THEN 1 ELSE @,
                                   !.rpc = IF found THEN "confirm" ELSE @,
                                   !.i = IF found THEN 0 ELSE @ + 1]
  /\ UNCHANGED engineVars

\* lines 1349-1360: method 2, at most ConfirmTries confirms by deal reference
ResConfirm ==
  /\ call.rpc = "confirm"
  /\ IF \/ ~call.deal_ref
        \/ (call.i = 0 /\ ~(call.clock < FillTimeout))
        \/ call.i >= ConfirmTries
        \/ call.clock > FillTimeout
       THEN call' = [call EXCEPT !.rpc = "last"]
       ELSE \E dt \in ConfirmTimes, did \in BOOLEAN :
              call' = [call EXCEPT !.polled = call.clock,
                                   !.clock = IF did THEN @ + dt ELSE @ + dt + 1,
                                   !.deal_id = IF did THEN 1 ELSE @,
                                   !.rpc = IF did THEN "last" ELSE @,
                                   !.i = @ + 1]
  /\ UNCHANGED engineVars

\* lines 1367-1372: one more listing when there is no id yet
ResLast ==
  /\ call.rpc = "last"
  /\ IF call.deal_id # NoDeal
       THEN call' = [call EXCEPT !.rpc = "timeout"]
       ELSE \E dt \in ListTimes, found \in BOOLEAN :
              call' = [call EXCEPT !.clock = @ + dt, !.polled = call.clock,
                                   !.deal_id = IF found THEN 1 ELSE @,
                                   !.rpc = "timeout"]
  /\ UNCHANGED engineVars

\* lines 1374-1400: the orphan check after the deadline, then the attempt
\* ends with or without an id
ResEnd ==
  /\ call.rpc = "timeout"
  /\ call' = [call EXCEPT !.rpc = "end", !.elapsed = call.clock,
                          !.orphan = call.deal_id = NoDeal /\ call.clock >= FillTimeout]
  /\ UNCHANGED engineVars

NextRes == ResList \/ ResConfirm \/ ResLast \/ ResEnd
SpecRes == InitRes /\ [][NextRes]_vars

\* ------------------------------------------------------------ steps
\* client.open_market is called
OrderStep == pc = "open" /\ Len(orders') = Len(orders) + 1
\* the reconciliation pass of an iteration
ReconcileStep == pc = "reconcile" /\ pc' \in { "manage", "entry" }
\* _handle_position_exit ran (a realized exit)
ExitStep == pc' # pc /\ ev'.kind = "exit"

\* every snapshot a listing can yield
Snapshots ==
  { NoSnap } \cup { [deal_id |-> d, direction |-> dr, entry |-> e, sl |-> None, tp |-> None] :
                    d \in Deals, dr \in Dirs, e \in { None, EntryPx } }

\* ------------------------------------------------------------ properties

\* C1: at most one position opened by the controller is open at the broker,
\* whatever broker calls fail.
C1_SinglePosition == Cardinality(broker) <= 1

\* C2: a reconciliation pass that finds local state flat while the broker
\* lists a position stores one listed deal with the recovered flag and saves
\* it, and no market order is submitted in an iteration that adopted.
C2_AdoptOnRestart ==
  [][ /\ (ReconcileStep /\ ~Live(st) /\ ev'.ok /\ broker # {})
         => /\ st'.pos.deal_id \in broker
            /\ st'.pos.direction = DirOf(st'.pos.deal_id)
            /\ st'.pos.recovered
            /\ disk' = st'
            /\ pc' = "manage"
            /\ it'.adopted
      /\ OrderStep => ~it.adopted ]_vars

C2_Adopted ==
  /\ pc = "manage" /\ it.adopted /\ run = 1
  /\ st.pos.recovered /\ st.pos.deal_id \in broker /\ disk = st

\* C3: within one run no two market orders carry the same signal bar, and an
\* order is submitted only for a signal bar strictly after last_closed_time.
C3_OneAttemptPerBar ==
  [][ OrderStep =>
        /\ lct = None \/ cur.sigT > lct
        /\ \A i \in 1..Len(orders) : orders[i].run = run => orders[i].t # cur.sigT ]_vars

\* a later poll saw the bar of an order of this run again and skipped it
C3_SecondPollSkipped ==
  /\ ev.kind = "dedup"
  /\ \E i \in 1..Len(orders) : orders[i].run = run /\ orders[i].t = bar.t

\* C4: after a crash and a restart from the persisted state, no market order
\* is submitted for a signal bar for which an earlier run already submitted one;
\* stated for an earlier order that the broker accepted and that is still
\* open or about to be listed.
C4_NoResubmitAfterRestart ==
  \A i, j \in 1..Len(orders) :
    (i < j /\ orders[i].run # orders[j].run /\ orders[i].t # None
       /\ i \in broker \cup pending)
      => orders[i].t # orders[j].t

\* C5: a reconciliation pass whose listing failed leaves a live local
\* position unchanged.
C5_ListingFailureKeepsPosition ==
  [][ (ReconcileStep /\ ~ev'.ok /\ Live(st)) => st'.pos = st.pos ]_vars

\* C6: reconciling twice with the same snapshot equals reconciling once, for
\* the engine state at hand and every snapshot.
C6_ReconcileIdempotent ==
  \A snap \in Snapshots :
    ReconcileSt(ReconcileSt(st, snap), snap) = ReconcileSt(st, snap)

\* a pass ran on a live local position while the broker lists another deal
C6_MismatchSeen ==
  /\ pc = "manage" /\ ev.kind = "reconcile" /\ Live(st)
  /\ \E d \in broker : d # st.pos.deal_id

\* C7: no failing broker call ends the loop; only shutdown does.
C7_LoopSurvivesBrokerFailure == pc # "crashed"

\* C8: no market order is submitted while now is before cooldown_until, and
\* the cooldown gate blocks only while now is before cooldown_until.
C8_CooldownGate ==
  [][ /\ OrderStep => ~(st.cooldown_until # None /\ now < st.cooldown_until)
      /\ (pc = "entry" /\ ev'.kind = "gate_cd")
            => (st.cooldown_until # None /\ now < st.cooldown_until) ]_vars

\* an order went out with an expired cooldown still stored
C8_OrderAfterCooldown ==
  /\ pc = "resolve" /\ st.cooldown_until # None /\ now >= st.cooldown_until

\* C9: the N-th losing exit in a row sets cooldown_until to the exit's now plus
\* the cooldown; an exit that is not losing, or is losing with fewer than N in
\* a row, leaves cooldown_until as it was.
C9_BreakerTrip ==
  [][ ExitStep =>
        IF ev'.loss /\ lossRun' = cfg.cb_losses
          THEN st'.cooldown_until = now' + CbCooldown
        ELSE IF ~ev'.loss \/ lossRun' < cfg.cb_losses
          THEN st'.cooldown_until = st.cooldown_until
        ELSE TRUE ]_vars

\* the N-th losing exit in a row has just set the cooldown
C9_Tripped ==
  /\ ev.kind = "exit" /\ ev.loss /\ lossRun = cfg.cb_losses
  /\ st.cooldown_until = now + CbCooldown

\* C10: a realized exit increments the loss counter when P&L < 0 and resets it
\* to 0 otherwise; no other step of the running process changes it.
C10_CounterTransition ==
  [][ IF ExitStep
        THEN /\ st'.consec_losses = IF ev'.loss THEN st.consec_losses + 1 ELSE 0
             /\ disk'.consec_losses = st'.consec_losses
        ELSE /\ pc' = "crashed" \/ st'.consec_losses = st.consec_losses
             /\ disk'.consec_losses = disk.consec_losses ]_vars

\* the cooldown has expired and the counter still holds the triggering value
C10_CounterKeptAfterExpiry ==
  /\ pc = "entry" /\ st.consec_losses >= cfg.cb_losses
  /\ st.cooldown_until # None /\ now >= st.cooldown_until


\* the arguments the sizing claim speaks of, and the floor of the risk quotient
SizePre(c) ==
  /\ IsFinite(c.bot_equity) /\ IsFinite(c.risk_pct) /\ IsFinite(c.r_points)
  /\ IsFinite(c.vpps) /\ IsFinite(c.min_size) /\ (c.max_size = None \/ IsFinite(c.max_size))
  /\ c.bot_equity > 0 /\ c.risk_pct > 0 /\ c.risk_pct <= RiskDen /\ c.r_points > 0 /\ c.vpps > 0
SizeFloor(c) == (c.bot_equity * c.risk_pct) \div (RiskDen * c.r_points * c.vpps)

TrailCall == call.fn = "trail"

\* C11: under either trailing variant, and whatever buffer each iteration
\* runs with, no management iteration lowers the stop of a BUY position or
\* raises the stop of a SELL position.
C11_StopMonotone ==
  TrailCall =>
    IF call.pos.direction = "BUY" THEN call.pos.sl >= call.prev.sl
                                  ELSE call.pos.sl <= call.prev.sl

\* a long's stop moved in two successive iterations, the second under another buffer
C11_MovedTwice ==
  /\ TrailCall /\ ~call.sp500 /\ call.pos.direction = "BUY" /\ call.n >= 2
  /\ call.pos.sl > call.prev.sl /\ call.prev.sl > TrailEntry - TrailR
  /\ call.buffer_r # BufferR

\* C12: under the threshold variant a flag that is set stays set, an
\* iteration moves the stop only by latching a threshold that was not latched,
\* and the event of a threshold is emitted only when its flag becomes set.
C12_ThresholdsLatch ==
  (TrailCall /\ ~call.sp500) =>
    /\ call.prev.t1 => call.pos.t1
    /\ call.prev.t2 => call.pos.t2
    /\ call.pos.sl # call.prev.sl
         => \/ ~call.prev.t1 /\ call.pos.t1
            \/ ~call.prev.t2 /\ call.pos.t2
    /\ "TRAIL_1R" \in call.emitted => ~call.prev.t1 /\ call.pos.t1
    /\ "TRAIL_2R" \in call.emitted => ~call.prev.t2 /\ call.pos.t2

\* both thresholds are latched and a later bar far in profit moved nothing
C12_NoThirdMove ==
  /\ TrailCall /\ ~call.sp500 /\ call.n = MaxTrail
  /\ call.prev.t1 /\ call.prev.t2 /\ call.pos = call.prev /\ call.emitted = {}
  /\ ProfitPoints(call.pos.direction, call.pos.entry, call.b.close) >= 2 * call.pos.r_points
  /\ call.buffer_r = 12

\* C13: on a fresh position with r_points > 0 and the stop at entry - R (BUY;
\* mirrored for SELL), profit in [1R, 2R) gives stop entry + buffer_r * R and
\* trail_1r_done; profit >= 2R gives stop entry + R + buffer_r * R and both
\* flags; profit < 1R changes neither the stop nor the flags.
C13_ThresholdValues ==
  (TrailCall /\ ~call.sp500 /\ call.n = 1 /\ call.prev.r_points > 0) =>
    LET p == call.prev
        R == p.r_points
        buf == (call.buffer_r * R) \div BufferDen
        ppts == ProfitPoints(p.direction, p.entry, call.b.close)
        At(k) == IF p.direction = "BUY" THEN p.entry + k ELSE p.entry - k
    IN IF ppts >= 2 * R
         THEN call.pos.sl = At(R + buf) /\ call.pos.t1 /\ call.pos.t2
       ELSE IF ppts >= R
         THEN call.pos.sl = At(buf) /\ call.pos.t1 /\ ~call.pos.t2
       ELSE call.pos.sl = p.sl /\ ~call.pos.t1 /\ ~call.pos.t2

\* the documented example: entry 100, R 10, buffer 0.1, price 111 gives stop 101
C13_Example ==
  /\ TrailCall /\ ~call.sp500 /\ call.n = 1 /\ call.pos.direction = "BUY"
  /\ call.prev.r_points = 10 /\ call.buffer_r = 1 /\ call.b.close = 111
  /\ call.pos.sl = 101 /\ call.pos.t1 /\ ~call.pos.t2

\* C14: under the favorable-extreme variant, once a closed bar went past the
\* entry in the trade's favor the breakeven lock is engaged and the stop is at
\* the entry or better, whatever atr_entry is.
C14_BreakevenLock ==
  (TrailCall /\ call.sp500 /\ call.fav) =>
    /\ call.pos.be_armed
    /\ IF call.pos.direction = "BUY" THEN call.pos.sl >= call.pos.entry
                                     ELSE call.pos.sl <= call.pos.entry

\* ------------------------------------------------------------ exit evaluator
ExitCall == call.fn = "exit" /\ call.done
\* the three exit conditions on the call's position and bar
RthDue(c) == c.rth_exit /\ c.cal = "closed"
HitDue(c) == ~MissingLevels(c.pos) /\ (HitSl(c.pos, c.b) \/ HitTp(c.pos, c.b))
TimeDue(c) == ~MissingLevels(c.pos) /\ TimeExitDue(c.pos, c.bar_t, c.sp500)

\* C15: the exit checks apply in the order session close, stop/target, time
\* stop; the reason and price are those of the first check that holds, one exit
\* is decided, and the trailing engine runs only when none of the three holds.
C15_ExitOrder ==
  ExitCall =>
    /\ RthDue(call) => call.out = Decision("exit", "EXIT_RTH", call.b.close)
    /\ (~RthDue(call) /\ HitDue(call))
         => /\ call.out.kind = "exit"
            /\ \/ call.out.reason = "EXIT_SL" /\ call.out.px = call.pos.sl
                  /\ HitSl(call.pos, call.b)
               \/ call.out.reason = "EXIT_TP" /\ call.out.px = call.pos.tp
                  /\ HitTp(call.pos, call.b)
    /\ (~RthDue(call) /\ ~HitDue(call) /\ TimeDue(call))
         => call.out = Decision("exit", "TIME_EXIT", call.b.close)
    /\ call.out.kind = "trail"
         => ~RthDue(call) /\ ~HitDue(call) /\ ~TimeDue(call)
    /\ (~RthDue(call) /\ ~HitDue(call) /\ ~TimeDue(call)) => call.out.kind # "exit"

\* all three conditions hold on the same closed bar and the session exit is taken
C15_AllThreeHold ==
  /\ ExitCall /\ RthDue(call) /\ HitDue(call) /\ TimeDue(call)
  /\ call.out.reason = "EXIT_RTH" /\ call.out.px = call.b.close

Resolved == ev.kind = "resolve"

\* C17: when polling the broker's position list yielded an id, the deal_id
\* stored in PositionState is that id, whatever the confirmation returned.
C17_ListIdAuthoritative ==
  (Resolved /\ ev.res.listed # NoDeal) => st.pos.deal_id = ev.res.listed

\* C18: when the fill deadline elapsed without an id and a position is then
\* found at the broker, a close is issued for that position, FILL_TIMEOUT is
\* emitted, and the position is not adopted in that iteration.
C18_OrphanClosed ==
  (Resolved /\ ev.res.timedOut /\ ev.res.deal_id = NoDeal /\ ev.res.found # NoDeal)
    => /\ ev.res.closed = ev.res.found
       /\ ev.res.notified
       /\ ev.ok => ev.res.found \notin broker
       /\ ~Live(st) /\ ~Live(disk)

\* the orphan is the position of the order just placed, and the close went through
C18_OrphanOfThisOrder ==
  /\ Resolved /\ ev.res.timedOut /\ ev.res.deal_id = NoDeal
  /\ ev.res.found = cur.id /\ ev.res.closed = cur.id /\ ev.ok
  /\ cur.id \notin broker /\ ~Live(st)

\* C19: a resolver that ends without an id creates no PositionState, sets
\* last_closed_time to the signal bar and persists it in the same iteration,
\* and no later order of the run is submitted for a bar that already had one.
C19_AbandonMarksBar ==
  [][ /\ (pc = "resolve" /\ ev'.kind = "resolve" /\ ev'.res.deal_id = NoDeal)
         => /\ st'.pos = st.pos /\ ~Live(st')
            /\ lct' = cur.sigT
            /\ st'.last_closed_time = cur.sigT
            /\ disk' = st'
      /\ OrderStep =>
           \A i \in 1..Len(orders) :
             (orders[i].run = run /\ orders[i].t = cur.sigT) => FALSE ]_vars

\* the order was rejected, no position appeared, and the resolver ended
\* without an id: the bar is marked in memory and in the state file
C19_Abandoned ==
  /\ Resolved /\ ev.res.deal_id = NoDeal /\ ev.res.listed = NoDeal
  /\ cur.id # NoDeal /\ cur.id \notin broker \cup pending
  /\ ~Live(st) /\ lct = cur.sigT /\ disk.last_closed_time = cur.sigT

\* ------------------------------------------------------------ sizing guard
\* an argument that is not a finite number or is not positive
Unusable(x) == ~IsFinite(x) \/ x <= 0

C22_OneAlertPerEpisode ==
  call.fn = "wd" =>
    /\ call.alertsEp <= 1
    /\ call.seen => call.alertsEp = 1

\* ------------------------------------------------------------ shutdown
Terminated == pc \in { "stopped", "crashed" }
\* the exploration stops at MaxOrders orders
OutOfOrders == pc = "open" /\ Len(orders) >= MaxOrders
ShutdownStep == pc = "top" /\ shutdown /\ pc' # pc

Holds(p) == call.lpc[p] = "held"

\* C24: at most one process holds the lock at a time
C24_MutualExclusion ==
  call.fn = "lock" => \A p, q \in Procs : (Holds(p) /\ Holds(q)) => p = q

\* ------------------------------------------------------------ state store
\* C25: after a crash at any step of a save, load_state returns the complete
\* state saved before or the complete new state
C25_SaveAtomic ==
  (call.fn = "save" /\ call.spc = "loaded") => call.loaded \in { call.prev, call.new }

\* ------------------------------------------------------------ entry gates
GateCall == call.fn = "gate" /\ call.done /\ call.fetch = "ok"

\* C26: while flat, when a weekday exclusion, the session window or an
\* excluded hour applies to `now`, the entry evaluation does not go on to an
\* order, in every engine mode, and the first of the three in that order is
\* the one that ends it
C26_GatesBlockEntry ==
  GateCall =>
    /\ (call.thu \/ call.outside \/ call.nth) => call.out # "signal"
    /\ call.thu => call.out = "gate_thu"
    /\ (~call.thu /\ call.outside) => call.out = "gate_rth"
    /\ (~call.thu /\ ~call.outside /\ call.nth) => call.out = "gate_nth"

\* ------------------------------------------------------------ management polls
\* the last iteration applied to an open position
MgmtCall == call.fn = "mgmt" /\ call.n > 0
\* the calendar situation without the weekday exclusion and the excluded hour
NoGateCal(cal) == IF cal \in { "thu", "nth" } THEN "open" ELSE cal
CooldownActive(s) == s.cooldown_until # None /\ s.cooldown_until > MaxTime

\* C27: with a position open, a weekday exclusion, an excluded hour or an
\* active cooldown changes nothing in what the iteration decides for the
\* position: it decides what it would decide without them, and whatever
\* closes the position is one of the exit checks
C27_GatesLeavePositionAlone ==
  MgmtCall =>
    /\ call.out = ManageDecision(call.fetch, [call.prev EXCEPT !.cooldown_until = None],
                                 call.b, NoGateCal(call.cal), call.bar_t, call.sp500,
                                 TpFirst(call.sp500, ""), call.rth_exit)
    /\ call.out.kind = "exit" =>
         call.out.reason \in { "EXIT_RTH", "EXIT_SL", "EXIT_TP", "TIME_EXIT" }
\* a position evaluated and kept on an excluded day during a cooldown
C27_ManagedUnderGates ==
  /\ MgmtCall /\ call.cal = "thu" /\ CooldownActive(call.prev)
  /\ call.out.kind = "trail"

\* C29: with a position open, the session-close exit configured and `now`
\* outside the session window, the iteration closes the position at the last
\* closed bar's close, whether or not that bar was managed before
C29_SessionCloseExit ==
  (MgmtCall /\ call.fetch = "ok" /\ call.rth_exit /\ call.cal = "closed")
    => call.out = Decision("exit", "EXIT_RTH", call.b.close)

\* C30: outside the fastest mode a closed bar is evaluated once however often
\* it is polled: a poll of the bar managed last checks no exit and changes
\* nothing, a poll of a new bar evaluates it; in the fastest mode every poll
\* evaluates the bar
C30_OncePerBar ==
  MgmtCall =>
    /\ (~call.sp500 /\ call.prev.last_mgmt_bar = call.bar_t)
         => (call.out.kind = "none" /\ call.s = call.prev)
    /\ (~call.sp500 /\ call.prev.last_mgmt_bar # call.bar_t /\ call.fetch = "ok")
         => (call.out.kind # "none" /\ call.s.last_mgmt_bar = call.bar_t)
    /\ ~call.sp500 => call.evals <= 1
    /\ (call.sp500 /\ call.fetch = "ok") => call.out.kind # "none"
\* the second poll of a bar outside the fastest mode, after the first one
\* evaluated it
C30_SecondPollSkipped ==
  /\ MgmtCall /\ ~call.sp500 /\ call.n = 2 /\ call.evals = 1
  /\ call.fetch = "ok" /\ call.out.kind = "none"

\* ------------------------------------------------------------ reconcile first
\* the positions of an iteration that lie behind its reconciliation pass
AfterReconcile == pc \in { "manage", "entry", "guard", "open", "resolve" }

\* C28: an iteration gets behind its reconciliation only through the one
\* reconciliation pass, and every exit of a position and every order is
\* decided behind it, the close on shutdown included
C28_ReconcileFirst ==
  /\ [][(~AfterReconcile /\ AfterReconcile') => ReconcileStep]_vars
  /\ [][(ExitStep \/ OrderStep) => AfterReconcile]_vars

\* ------------------------------------------------------------ time stop
\* C31: the time stop fires exactly when exit_bars > 0, the closed bar is at
\* least exit_bars bars after the entry bar and no earlier check ended the
\* evaluation, and it exits at the bar's close; a position with exit_bars = 0
\* is never closed by it, in any engine mode
C31_TimeStop ==
  ExitCall =>
    /\ call.out.reason = "TIME_EXIT"
         <=> /\ call.pos.exit_bars > 0
             /\ call.pos.entry_bar # None
             /\ call.bar_t >= call.pos.entry_bar + call.pos.exit_bars
             /\ ~RthDue(call) /\ ~MissingLevels(call.pos) /\ ~HitDue(call)
    /\ call.out.reason = "TIME_EXIT" => call.out = Decision("exit", "TIME_EXIT", call.b.close)

\* ------------------------------------------------------------ fill deadline
\* C32: the resolver gives an entry attempt up with no id only when the fill
\* timeout has passed, and starts no poll after it
C32_PollsUntilDeadline ==
  call.fn = "fill" =>
    /\ (call.rpc = "end" /\ call.deal_id = NoDeal) => call.elapsed >= FillTimeout
    /\ call.polled # None => call.polled <= FillTimeout

\* ------------------------------------------------------------ adopted levels
AdoptCall == call.fn = "adopt" /\ call.done

\* C33: an adopted position takes the stop and limit the listing carries as
\* sl_local and tp_local, a later management iteration checks the closed bar
\* against them, and management is skipped only while one of them is missing
C33_AdoptedLevels ==
  AdoptCall =>
    /\ call.s.pos.recovered
    /\ call.s.pos.sl = call.snap.sl /\ call.s.pos.tp = call.snap.tp
    /\ call.out.kind = "skip" <=> (call.snap.sl = None \/ call.snap.tp = None)
    /\ (call.snap.sl # None /\ call.snap.tp # None /\ HitSl(call.s.pos, call.b))
         => call.out.kind = "exit"

\* ------------------------------------------------------------ favorable extreme
\* the favorable extreme a position stores, the entry while none is stored
StoredFav(pos) ==
  IF pos.direction = "BUY"
    THEN (IF pos.max_fav = None THEN pos.entry ELSE pos.max_fav)
    ELSE (IF pos.min_fav = None THEN pos.entry ELSE pos.min_fav)

\* C34: under the favorable-extreme variant the stored max_fav / min_fav is,
\* after every management iteration, the highest high / lowest low of the
\* closed bars evaluated so far, also when the stop did not move
C34_FavTracksExtreme ==
  (TrailCall /\ call.sp500) => StoredFav(call.pos) = call.ext

\* ------------------------------------------------------------ persisted state
\* the controller sleeps between two iterations
SleepPoint == pc = "top"

\* C35: at every sleep point the persisted state equals the state in memory,
\* the dedup key the entry path compares against included, so a controller
\* restarted from the file decides on a closed bar as the running one does
C35_PersistedIsMemory ==
  SleepPoint =>
    /\ disk = st
    /\ lct = disk.last_closed_time
    /\ \A t \in 0 .. MaxTime : DedupSkip(disk.last_closed_time, t) = DedupSkip(lct, t)

\* ------------------------------------------------------------ recorded entry
\* C36: the position recorded for a confirmed entry has a direction of BUY or
\* SELL, a size above zero and a finite risk unit above zero, whatever the
\* strategy's risk levels and the sizing inputs are
C36_PositiveRiskUnit ==
  (call.fn = "entry" /\ call.done) =>
    /\ call.out.direction \in Dirs
    /\ call.out.size > 0
    /\ IsFinite(call.out.r_points) /\ call.out.r_points > 0

\* ------------------------------------------------------------ untracked fills
\* deal d is open at the broker and is not the position the state records
Untracked(d) == d \in broker /\ st.pos.deal_id # d
\* the state records a position that management will exit: one with levels
\* has its time stop, which lies beyond MaxTime, and one without levels is
\* closed at the end of the session where the session-close exit is on
WillExit == Live(st) /\ (~MissingLevels(st.pos) \/ ~cfg.sp500)

\* C37: a position that is open at the broker and not recorded is eventually
\* recorded or no longer open, as long as the loop keeps iterating (it has
\* not terminated, and the position the state records is not one whose exit
\* is still to come)
C37_NoFillLeftUntracked ==
  \A d \in Deals :
    Untracked(d) ~> (~Untracked(d) \/ Terminated \/ OutOfOrders \/ WillExit)

\* ------------------------------------------------------------ exit accounting
\* C38: an exit is accounted (breaker updated, row appended, state reset to
\* flat) only for a position that is closed at the broker: after an exit
\* step the position the state held is no longer open there
C38_ExitMeansClosed ==
  [][(ExitStep /\ Live(st)) => st.pos.deal_id \notin broker']_vars

\* ------------------------------------------------------------ managed bars
\* a management iteration that ran the exit checks of an entered position on
\* the last closed bar: it marks the bar as managed (lines 1011-1021)
EvaluatedStep ==
  /\ pc = "manage" /\ Live(st) /\ st.pos.entry_bar # None
  /\ st.last_mgmt_bar # bar.t
  /\ (ev'.kind = "exit" \/ (Live(st') /\ st'.last_mgmt_bar = bar.t))

\* C39: the exit checks and the trailing of a position run only on a bar
\* that closed after the entry, never on the signal bar or an earlier one
C39_BarAfterEntry ==
  [][EvaluatedStep => bar.t >= st.pos.entry_bar]_vars

\* ------------------------------------------------------------ stale position
\* the reconciliation pass clears a local position the broker does not list
ClearStep == ReconcileStep /\ Live(st) /\ ~Live(st')

\* C40: clearing a stale local position changes only the position: the
\* breaker fields, last_closed_time and last_mgmt_bar keep their values, no
\* exit is accounted, the cleared state is saved and the iteration goes on
\* to the entry evaluation
C40_ClearOnlyPosition ==
  [][ClearStep => /\ st' = [st EXCEPT !.pos = FlatPos]
                  /\ disk' = st'
                  /\ lct' = lct /\ lossRun' = lossRun
                  /\ ev'.kind # "exit"
                  /\ pc' = "entry"]_vars

\* a position that had been managed was cleared while a loss was counted
C40_ClearedAfterLoss ==
  /\ pc = "entry" /\ ev.kind = "reconcile" /\ ev.snap # NoDeal /\ ~Live(st)
  /\ st.consec_losses > 0 /\ st.last_mgmt_bar # None

====
